---- MODULE Spec2Model ----
(***************************************************************************)
(* Model of the TruckScenes devkit front-ends:                             *)
(*   - FoxgloveStreamer (src/src/truckscenes/foxglove_streamer.py): the    *)
(*     streaming relay, channel registration, the per-sensor conversions   *)
(*     and the timestamp conversion;                                       *)
(*   - the command line entry point (src/src/truckscenes/__main__.py).     *)
(*                                                                         *)
(* Conventions.  Channel names are sequences of their "_"-separated words  *)
(* (<<"CAMERA","LEFT","FRONT">> is CAMERA_LEFT_FRONT), so that Python's    *)
(* substring test 'CAMERA' in channel and the f-string f"{channel}_info"   *)
(* are computed rather than looked up.  Python's None is <<>>, an optional *)
(* value is None or <<value>>, an empty token is "".  Radar cross sections *)
(* are whole dBsm and colour components are in units of 1/100, which makes *)
(* the colour ramp exact in integer arithmetic.                            *)
(***************************************************************************)
EXTENDS Integers, Sequences, FiniteSets, TLC

VARIABLES
    pc,                   \* position of the _run_server/_stream_data coroutine
    running,              \* self.running
    channels,             \* self.channels: channel name -> channel id
    tf_channel,           \* self.tf_channel
    annotations_channel,  \* self.annotations_channel
    server_channels,      \* the server's registry: channel id -> advertised channel
    scene_idx,            \* enumerate index of the for loop over self.ts.scene (1-based)
    current_token,        \* current_token of the while loop
    sample,               \* token of the sample of the frame in progress
    item_idx,             \* position in sample['data'].items() (1-based)
    frame_count,          \* frame_count of the current scene
    trace,                \* history: everything the relay did, in order
    faults,               \* history: number of exceptions raised so far
    stop_mark,            \* history: where the relay was when running was cleared
    report,               \* the counts _register_channels printed (None before)
    cli,                  \* the command line run: arguments, scene table, outcome
    probe                 \* harness of the pure conversions: input and result

vars == <<pc, running, channels, tf_channel, annotations_channel, server_channels,
          scene_idx, current_token, sample, item_idx, frame_count, trace, faults,
          stop_mark, report, cli, probe>>

streamVars == <<pc, running, channels, tf_channel, annotations_channel,
                server_channels, scene_idx, current_token, sample, item_idx,
                frame_count, trace, faults, stop_mark, report>>

None == <<>>

Idle == [at |-> "idle"]

(***************************************************************************)
(* Bounds of the model.                                                    *)
(***************************************************************************)
\* exceptions the environment (files, tables, server) raises in one run
MaxFaults == 2

(***************************************************************************)
(* The dataset behind the query facade: ts.sensor, ts.scene, ts.get.       *)
(***************************************************************************)
CAMERA_LEFT_FRONT == <<"CAMERA", "LEFT", "FRONT">>
LIDAR_LEFT == <<"LIDAR", "LEFT">>
LIDAR_TOP_FRONT == <<"LIDAR", "TOP", "FRONT">>
RADAR_LEFT_FRONT == <<"RADAR", "LEFT", "FRONT">>
XSENSE_CHASSIS == <<"XSENSE", "CHASSIS">>

\* ts.sensor, in table order
Sensors ==
    << [channel |-> CAMERA_LEFT_FRONT], [channel |-> LIDAR_LEFT],
       [channel |-> LIDAR_TOP_FRONT], [channel |-> RADAR_LEFT_FRONT],
       [channel |-> XSENSE_CHASSIS] >>

\* ts.scene, in table order
Scenes ==
    << [token |-> "sceneA", first_sample_token |-> "s1"],
       [token |-> "sceneB", first_sample_token |-> "s3"] >>

\* the sample table; data is the ordered channel -> sample_data token map
SampleTable ==
    [ s1 |-> [timestamp |-> 1200000, next |-> "s2",
              data |-> << <<CAMERA_LEFT_FRONT, "cam1">>, <<LIDAR_LEFT, "lidar1">>,
                          <<RADAR_LEFT_FRONT, "radar1">> >>,
              anns |-> <<"ann1", "ann2">>],
      s2 |-> [timestamp |-> 1300000, next |-> "",
              data |-> << <<LIDAR_TOP_FRONT, "lidar2">>, <<XSENSE_CHASSIS, "imu2">> >>,
              anns |-> <<"ann3">>],
      s3 |-> [timestamp |-> 1400000, next |-> "s4",
              data |-> << <<CAMERA_LEFT_FRONT, "cam3">> >>,
              anns |-> <<"ann4">>],
      s4 |-> [timestamp |-> 1500000, next |-> "",
              data |-> << <<RADAR_LEFT_FRONT, "radar4">>, <<LIDAR_LEFT, "lidar4">> >>,
              anns |-> << >>] ]

\* category of each annotation's instance
AnnCategory ==
    [ ann1 |-> "vehicle.car", ann2 |-> "human.pedestrian.adult",
      ann3 |-> "vehicle.truck", ann4 |-> "vehicle.trailer" ]

\* decoded point clouds: one tuple of rows per point (x, y, z, ...); a radar
\* point has 7 rows, the last one the RCS in dBsm
CloudFiles ==
    [ lidar1 |-> << <<10, 20, 1, 7>>, <<11, -20, 2, 9>> >>,
      lidar2 |-> << >>,
      lidar4 |-> << <<-5, 6, 0, 3>> >>,
      radar1 |-> << <<30, 1, 0, 0, 0, 0, -5>> >>,
      radar4 |-> << <<40, -2, 1, 0, 0, 0, 12>>, <<41, 3, 1, 0, 0, 0, 34>> >> ]

(***************************************************************************)
(* Pure conversions of FoxgloveStreamer.                                   *)
(***************************************************************************)
Min(a, b) == IF a <= b THEN a ELSE b

Max(a, b) == IF a >= b THEN a ELSE b

UsPerSec == 1000000

NsPerUs == 1000

\* a mutation of _ts: division truncating toward zero, as C's / and % do
TsTruncating(timestamp_us) ==
    LET q == IF timestamp_us >= 0 THEN timestamp_us \div UsPerSec
             ELSE -((-timestamp_us) \div UsPerSec)
    IN  [sec |-> q, nsec |-> (timestamp_us - q * UsPerSec) * NsPerUs]

\* _ts: Python's // and % floor, as \div and % do
Ts(timestamp_us) ==
    [sec |-> timestamp_us \div UsPerSec, nsec |-> (timestamp_us % UsPerSec) * NsPerUs]

\* 'WORD' in channel
Contains(channel, word) == \E i \in DOMAIN channel : channel[i] = word

\* f"{channel}_info"
InfoKey(channel) == Append(channel, "info")

\* rcs_norm = max(0.0, min(1.0, (rcs + 20) / 50)), in 1/100
RcsNorm(rcs) == Max(0, Min(100, ((rcs + 20) * 100) \div 50))

\* a mutation of the colour ramp: green never falls in the upper half
RcsColorFlatGreen(rcs) ==
    LET rcs_norm == RcsNorm(rcs)
    IN  IF rcs_norm < 50
        THEN [r |-> rcs_norm * 2, g |-> rcs_norm * 2, b |-> 100 - rcs_norm * 2, a |-> 100]
        ELSE [r |-> 100, g |-> 100, b |-> 0, a |-> 100]

\* the radar colour gradient: blue (low RCS) -> yellow -> red (high RCS)
RcsColor(rcs) ==
    LET rcs_norm == RcsNorm(rcs)
    IN  IF rcs_norm < 50
        THEN [r |-> rcs_norm * 2, g |-> rcs_norm * 2, b |-> 100 - rcs_norm * 2, a |-> 100]
        ELSE [r |-> 100, g |-> 100 - (rcs_norm - 50) * 2, b |-> 0, a |-> 100]

LidarMaxPts == 3000

RadarMaxPts == 800

\* row of the RCS in a radar cloud (0-based, as in pc.points[6, i])
RcsRow == 6

\* a mutation of max_pts: the radar branch uses the lidar cap
MaxPtsLidarOnly(is_lidar) == LidarMaxPts

\* max_pts of the two branches of _send_pointcloud
MaxPts(is_lidar) == IF is_lidar THEN LidarMaxPts ELSE RadarMaxPts

\* one sphere primitive of _send_pointcloud
Sphere(pt, is_lidar) ==
    [position |-> [x |-> pt[1], y |-> pt[2], z |-> pt[3]],
     size |-> IF is_lidar THEN "0.1" ELSE "0.3",
     color |-> IF is_lidar THEN [r |-> 0, g |-> 100, b |-> 0, a |-> 100]
               ELSE RcsColor(pt[RcsRow + 1])]

\* the spheres list built by _send_pointcloud from the decoded cloud
Spheres(points, is_lidar) ==
    [i \in 1..Min(Len(points), MaxPts(is_lidar)) |-> Sphere(points[i], is_lidar)]

\* the send_message calls of one _send_pointcloud whose decode succeeded
PointcloudMessages(chans, channel, points, timestamp, is_lidar) ==
    LET spheres == Spheres(points, is_lidar)
    IN  IF spheres # << >>
        THEN << [chan |-> chans[channel], timestamp |-> timestamp * NsPerUs,
                 payload |-> [schema |-> "foxglove.SceneUpdate", timestamp |-> Ts(timestamp),
                              id |-> channel, spheres |-> spheres]] >>
        ELSE << >>

\* a mutation of _send_camera: the calibration is sent before the image
CameraMessagesInfoFirst(chans, channel, sd_token, timestamp) ==
    (IF InfoKey(channel) \in DOMAIN chans
     THEN << [chan |-> chans[InfoKey(channel)], timestamp |-> timestamp * NsPerUs,
              payload |-> [schema |-> "foxglove.CameraCalibration", timestamp |-> Ts(timestamp),
                           width |-> 1920, height |-> 1080]] >>
     ELSE << >>)
    \o << [chan |-> chans[channel], timestamp |-> timestamp * NsPerUs,
           payload |-> [schema |-> "foxglove.CompressedImage", timestamp |-> Ts(timestamp),
                        format |-> "jpeg", data |-> sd_token]] >>

\* the send_message calls of one _send_camera that raises nothing: the image,
\* then the calibration when the _info channel is registered
CameraMessages(chans, channel, sd_token, timestamp) ==
    << [chan |-> chans[channel], timestamp |-> timestamp * NsPerUs,
        payload |-> [schema |-> "foxglove.CompressedImage", timestamp |-> Ts(timestamp),
                     format |-> "jpeg", data |-> sd_token]] >>
    \o (IF InfoKey(channel) \in DOMAIN chans
        THEN << [chan |-> chans[InfoKey(channel)], timestamp |-> timestamp * NsPerUs,
                 payload |-> [schema |-> "foxglove.CameraCalibration", timestamp |-> Ts(timestamp),
                              width |-> 1920, height |-> 1080]] >>
        ELSE << >>)

\* dict.get on an ordered map of <<key, value>> pairs; the result is optional:
\* None, or <<value>>
DictGet(items, key) ==
    IF \E i \in DOMAIN items : items[i][1] = key
    THEN <<items[CHOOSE i \in DOMAIN items : items[i][1] = key][2]>>
    ELSE None

\* Python truthiness of an optional token: None and "" are false
TruthyOpt(opt) == opt # None /\ opt[1] # ""

\* sample['data'].get('LIDAR_LEFT') or sample['data'].get('LIDAR_TOP_FRONT')
AnnLidarToken(data) ==
    IF TruthyOpt(DictGet(data, LIDAR_LEFT)) THEN DictGet(data, LIDAR_LEFT)
    ELSE DictGet(data, LIDAR_TOP_FRONT)

\* the cubes of _send_annotations: one per annotation of the sample, in order
\* (the pose arithmetic is left out, a cube is identified by its annotation)
Cubes(anns) == [i \in DOMAIN anns |-> [ann |-> anns[i], category |-> AnnCategory[anns[i]]]]

(***************************************************************************)
(* Channel registration.                                                   *)
(***************************************************************************)
ChannelId(n) == <<"ChannelId", n>>

\* server.add_channel: the server hands out the next identifier and advertises
\* the channel under it
AddChannel(srv, topic, schemaName) ==
    LET id == ChannelId(Cardinality(DOMAIN srv))
    IN  [id |-> id,
         srv |-> [c \in DOMAIN srv \cup {id} |->
                    IF c = id THEN [topic |-> topic, schemaName |-> schemaName]
                    ELSE srv[c]]]

\* self.channels[key] = id
DictSet(chans, key, id) ==
    [k \in DOMAIN chans \cup {key} |-> IF k = key THEN id ELSE chans[k]]

\* one iteration of the for loop over self.ts.sensor
RegisterSensor(st, channel) ==
    IF Contains(channel, "CAMERA")
    THEN LET img == AddChannel(st.srv, <<"camera", channel>>, "foxglove.CompressedImage")
             info == AddChannel(img.srv, <<"camera", channel, "camera_info">>,
                                "foxglove.CameraCalibration")
         IN  [chans |-> DictSet(DictSet(st.chans, channel, img.id),
                                InfoKey(channel), info.id),
              srv |-> info.srv]
    ELSE IF Contains(channel, "LIDAR")
    THEN LET a == AddChannel(st.srv, <<"lidar", channel>>, "foxglove.SceneUpdate")
         IN  [chans |-> DictSet(st.chans, channel, a.id), srv |-> a.srv]
    ELSE IF Contains(channel, "RADAR")
    THEN LET a == AddChannel(st.srv, <<"radar", channel>>, "foxglove.SceneUpdate")
         IN  [chans |-> DictSet(st.chans, channel, a.id), srv |-> a.srv]
    ELSE st

RECURSIVE RegisterSensors(_, _)
\* the for loop over self.ts.sensor, from sensor i on
RegisterSensors(st, i) ==
    IF i > Len(Sensors) THEN st
    ELSE RegisterSensors(RegisterSensor(st, Sensors[i].channel), i + 1)

\* sum(1 for ch in self.channels if 'WORD' in ch)
CountKeys(chans, word) == Cardinality({ch \in DOMAIN chans : Contains(ch, word)})

\* _register_channels: the sensors' channels, then /tf, then /annotations, then
\* the counts of the "Registered ..." line
RegisterChannels ==
    /\ pc = "start"
    /\ LET st == RegisterSensors([chans |-> channels, srv |-> server_channels], 1)
           tf == AddChannel(st.srv, <<"tf">>, "foxglove.FrameTransforms")
           an == AddChannel(tf.srv, <<"annotations">>, "foxglove.SceneUpdate")
       IN  /\ channels' = st.chans
           /\ tf_channel' = tf.id
           /\ annotations_channel' = an.id
           /\ server_channels' = an.srv
           /\ report' = [camera_count |-> CountKeys(st.chans, "CAMERA"),
                         lidar_count |-> CountKeys(st.chans, "LIDAR"),
                         radar_count |-> CountKeys(st.chans, "RADAR")]
    /\ pc' = "registered"
    /\ UNCHANGED <<running, scene_idx, current_token, sample, item_idx, frame_count,
                   trace, faults, stop_mark, cli, probe>>

\* _run_server after _register_channels: self.running = True, then _stream_data
StartStreaming ==
    /\ pc = "registered"
    /\ running' = TRUE
    /\ pc' = "for"
    /\ UNCHANGED <<channels, tf_channel, annotations_channel, server_channels,
                   scene_idx, current_token, sample, item_idx, frame_count, trace,
                   faults, stop_mark, report, cli, probe>>

(***************************************************************************)
(* The relay loop _stream_data.  Every step appends what it did to trace:  *)
(* step 0 of a frame is the sample lookup, step 1 the transform, step i+1  *)
(* the i-th item of sample['data'], then the annotations and the pacing    *)
(* delay.                                                                  *)
(***************************************************************************)
Data(tok) == SampleTable[tok].data

AnnsStep(tok) == Len(Data(tok)) + 2

SleepStep(tok) == Len(Data(tok)) + 3

FrameEv(tok) == [ev |-> "frame", sample |-> tok, step |-> 0]

RaiseEv(tok, step, caught) ==
    [ev |-> "raise", sample |-> tok, step |-> step, caught |-> caught]

SkipEv(tok, step) == [ev |-> "skip", sample |-> tok, step |-> step]

SleepEv(tok) == [ev |-> "sleep", sample |-> tok, step |-> SleepStep(tok)]

SendEvs(tok, step, msgs) ==
    [i \in DOMAIN msgs |->
        [ev |-> "send", sample |-> tok, step |-> step, chan |-> msgs[i].chan,
         timestamp |-> msgs[i].timestamp, payload |-> msgs[i].payload]]

\* the environment may still raise an exception
MayFault == faults < MaxFaults

\* a mutation of the loop condition: the running flag is not consulted
LoopGuardNoFlag(token, run) == token # ""

\* while current_token and self.running
LoopGuard(token, run) == token # "" /\ run

\* a mutation of the chain step: the walk follows nothing and ends the scene
NextTokenNone(tok) == ""

\* current_token = sample['next']
NextToken(tok) == SampleTable[tok].next

\* a mutation of the except clauses of the sensor sends: the error propagates
SensorErrorPropagates(after) == "crashed"

\* except Exception in _send_camera/_send_pointcloud: the error is printed and
\* the call returns, so the relay goes on where it would have after a success
SensorErrorPc(after) == after

\* a mutation of _send_transforms: the message goes to the other bare channel
TfTargetAnnotations == annotations_channel

\* the channel _send_transforms sends on
TfTarget == tf_channel

\* where the relay stands after item i - 1 of sample['data']
AfterItem(tok, i) == IF i > Len(Data(tok)) THEN "anns" ELSE "sensors"

\* for scene_idx, scene in enumerate(self.ts.scene), and "Streaming complete."
ForScene ==
    /\ pc = "for"
    /\ IF scene_idx < Len(Scenes)
       THEN /\ scene_idx' = scene_idx + 1
            /\ current_token' = Scenes[scene_idx + 1].first_sample_token
            /\ frame_count' = 0
            /\ pc' = "while"
       ELSE /\ pc' = "done"
            /\ UNCHANGED <<scene_idx, current_token, frame_count>>
    /\ UNCHANGED <<running, channels, tf_channel, annotations_channel,
                   server_channels, sample, item_idx, trace, faults, stop_mark,
                   report, cli, probe>>

\* the test of the while loop
WhileTest ==
    /\ pc = "while"
    /\ pc' = IF LoopGuard(current_token, running) THEN "lookup" ELSE "break_test"
    /\ UNCHANGED <<running, channels, tf_channel, annotations_channel,
                   server_channels, scene_idx, current_token, sample, item_idx,
                   frame_count, trace, faults, stop_mark, report, cli, probe>>

\* sample = self.ts.get('sample', current_token); timestamp = sample['timestamp']
\* (a KeyError of the table is not caught anywhere)
Lookup ==
    /\ pc = "lookup"
    /\ \/ /\ current_token \in DOMAIN SampleTable
          /\ sample' = current_token
          /\ trace' = Append(trace, FrameEv(current_token))
          /\ pc' = "tf"
          /\ UNCHANGED faults
       \/ /\ MayFault \/ current_token \notin DOMAIN SampleTable
          /\ trace' = Append(trace, RaiseEv(current_token, 0, FALSE))
          /\ faults' = faults + 1
          /\ pc' = "crashed"
          /\ UNCHANGED sample
    /\ UNCHANGED <<running, channels, tf_channel, annotations_channel,
                   server_channels, scene_idx, current_token, item_idx,
                   frame_count, stop_mark, report, cli, probe>>

\* _send_transforms (no try/except around it, nor in it)
SendTransforms ==
    /\ pc = "tf"
    /\ LET timestamp == SampleTable[sample].timestamp
           msg == [chan |-> TfTarget, timestamp |-> timestamp * NsPerUs,
                   payload |-> [schema |-> "foxglove.FrameTransforms",
                                timestamp |-> Ts(timestamp),
                                parent_frame_id |-> "world",
                                child_frame_id |-> "base_link"]]
       IN  \/ /\ trace' = trace \o SendEvs(sample, 1, <<msg>>)
              /\ item_idx' = 1
              /\ pc' = AfterItem(sample, 1)
              /\ UNCHANGED faults
           \/ /\ MayFault
              /\ trace' = Append(trace, RaiseEv(sample, 1, FALSE))
              /\ faults' = faults + 1
              /\ pc' = "crashed"
              /\ UNCHANGED item_idx
    /\ UNCHANGED <<running, channels, tf_channel, annotations_channel,
                   server_channels, scene_idx, current_token, sample, frame_count,
                   stop_mark, report, cli, probe>>

\* the item of sample['data'].items() the for loop is at
CurChannel == Data(sample)[item_idx][1]

CurSdToken == Data(sample)[item_idx][2]

AtSensor == pc = "sensors" /\ item_idx <= Len(Data(sample))

\* what every sensor action leaves alone
SensorFrame ==
    UNCHANGED <<running, channels, tf_channel, annotations_channel,
                server_channels, scene_idx, current_token, sample, frame_count,
                stop_mark, report, cli, probe>>

\* an item whose channel is not registered, or is of no known kind: nothing
SkipSensor ==
    /\ AtSensor
    /\ \/ CurChannel \notin DOMAIN channels
       \/ /\ ~Contains(CurChannel, "CAMERA")
          /\ ~Contains(CurChannel, "LIDAR")
          /\ ~Contains(CurChannel, "RADAR")
    /\ trace' = Append(trace, SkipEv(sample, item_idx + 1))
    /\ item_idx' = item_idx + 1
    /\ pc' = AfterItem(sample, item_idx + 1)
    /\ UNCHANGED faults
    /\ SensorFrame

\* _send_camera: the file is read, the image sent, then the calibration; an
\* exception at any point is caught and ends the call
SendCamera ==
    /\ AtSensor
    /\ CurChannel \in DOMAIN channels
    /\ Contains(CurChannel, "CAMERA")
    /\ LET step == item_idx + 1
           after == AfterItem(sample, item_idx + 1)
           msgs == CameraMessages(channels, CurChannel, CurSdToken,
                                  SampleTable[sample].timestamp)
       IN  \/ /\ trace' = trace \o SendEvs(sample, step, msgs)
              /\ pc' = after
              /\ UNCHANGED faults
           \/ /\ MayFault
              /\ \E sent \in 0..(Len(msgs) - 1) :
                    trace' = (trace \o SendEvs(sample, step, SubSeq(msgs, 1, sent)))
                             \o <<RaiseEv(sample, step, TRUE)>>
              /\ faults' = faults + 1
              /\ pc' = SensorErrorPc(after)
    /\ item_idx' = item_idx + 1
    /\ SensorFrame

\* _send_pointcloud: the cloud is decoded, capped and sent as one SceneUpdate;
\* an exception is caught and ends the call
SendPointcloud ==
    /\ AtSensor
    /\ CurChannel \in DOMAIN channels
    /\ ~Contains(CurChannel, "CAMERA")
    /\ Contains(CurChannel, "LIDAR") \/ Contains(CurChannel, "RADAR")
    /\ LET step == item_idx + 1
           after == AfterItem(sample, item_idx + 1)
       IN  \/ /\ CurSdToken \in DOMAIN CloudFiles
              /\ LET msgs == PointcloudMessages(channels, CurChannel,
                                 CloudFiles[CurSdToken],
                                 SampleTable[sample].timestamp,
                                 Contains(CurChannel, "LIDAR"))
                 IN  trace' = IF msgs = << >> THEN Append(trace, SkipEv(sample, step))
                              ELSE trace \o SendEvs(sample, step, msgs)
              /\ pc' = after
              /\ UNCHANGED faults
           \/ /\ MayFault \/ CurSdToken \notin DOMAIN CloudFiles
              /\ trace' = Append(trace, RaiseEv(sample, step, TRUE))
              /\ faults' = faults + 1
              /\ pc' = SensorErrorPc(after)
    /\ item_idx' = item_idx + 1
    /\ SensorFrame

\* _send_annotations: nothing without a lidar token or without cubes; an
\* exception is caught and ends the call
SendAnnotations ==
    /\ pc = "anns"
    /\ LET step == AnnsStep(sample)
           timestamp == SampleTable[sample].timestamp
           cubes == Cubes(SampleTable[sample].anns)
           msg == [chan |-> annotations_channel, timestamp |-> timestamp * NsPerUs,
                   payload |-> [schema |-> "foxglove.SceneUpdate", timestamp |-> Ts(timestamp),
                                id |-> "annotations", cubes |-> cubes]]
       IN  \/ /\ trace' = IF TruthyOpt(AnnLidarToken(Data(sample))) /\ cubes # << >>
                          THEN trace \o SendEvs(sample, step, <<msg>>)
                          ELSE Append(trace, SkipEv(sample, step))
              /\ UNCHANGED faults
           \/ /\ MayFault
              /\ TruthyOpt(AnnLidarToken(Data(sample)))
              /\ trace' = Append(trace, RaiseEv(sample, step, TRUE))
              /\ faults' = faults + 1
    /\ pc' = "sleep"
    /\ UNCHANGED <<running, channels, tf_channel, annotations_channel,
                   server_channels, scene_idx, current_token, sample, item_idx,
                   frame_count, stop_mark, report, cli, probe>>

\* the end of a frame: frame_count += 1, the pacing delay asyncio.sleep(0.1),
\* current_token = sample['next']
Sleep ==
    /\ pc = "sleep"
    /\ frame_count' = frame_count + 1
    /\ trace' = Append(trace, SleepEv(sample))
    /\ current_token' = NextToken(sample)
    /\ pc' = "while"
    /\ UNCHANGED <<running, channels, tf_channel, annotations_channel,
                   server_channels, scene_idx, sample, item_idx, faults,
                   stop_mark, report, cli, probe>>

\* a mutation of the test after the while loop: the condition is inverted
BreakTestInverted ==
    /\ pc = "break_test"
    /\ pc' = IF running THEN "done" ELSE "for"
    /\ UNCHANGED <<running, channels, tf_channel, annotations_channel,
                   server_channels, scene_idx, current_token, sample, item_idx,
                   frame_count, trace, faults, stop_mark, report, cli, probe>>

\* if not self.running: break
BreakTest ==
    /\ pc = "break_test"
    /\ pc' = IF ~running THEN "done" ELSE "for"
    /\ UNCHANGED <<running, channels, tf_channel, annotations_channel,
                   server_channels, scene_idx, current_token, sample, item_idx,
                   frame_count, trace, faults, stop_mark, report, cli, probe>>

InFrame == pc \in {"lookup", "tf", "sensors", "anns", "sleep"}

\* the only cancellation: something clears self.running while the relay runs
Stop ==
    /\ running
    /\ pc \in {"for", "while", "break_test"} \/ InFrame
    /\ running' = FALSE
    /\ stop_mark' = [set |-> TRUE, len |-> Len(trace),
                     frame |-> IF pc = "lookup" THEN current_token
                               ELSE IF InFrame THEN sample ELSE ""]
    /\ UNCHANGED <<pc, channels, tf_channel, annotations_channel, server_channels,
                   scene_idx, current_token, sample, item_idx, frame_count, trace,
                   faults, report, cli, probe>>

\* FoxgloveStreamer.__init__
Init ==
    /\ pc = "start"
    /\ running = FALSE
    /\ channels = << >>
    /\ tf_channel = None
    /\ annotations_channel = None
    /\ server_channels = << >>
    /\ scene_idx = 0
    /\ current_token = ""
    /\ sample = ""
    /\ item_idx = 0
    /\ frame_count = 0
    /\ trace = << >>
    /\ faults = 0
    /\ stop_mark = [set |-> FALSE, len |-> 0, frame |-> ""]
    /\ report = None
    /\ cli = Idle
    /\ probe = Idle

Next ==
    \/ RegisterChannels
    \/ StartStreaming
    \/ ForScene
    \/ WhileTest
    \/ Lookup
    \/ SendTransforms
    \/ SkipSensor
    \/ SendCamera
    \/ SendPointcloud
    \/ SendAnnotations
    \/ Sleep
    \/ BreakTest
    \/ Stop

Spec == Init /\ [][Next]_vars

(***************************************************************************)
(* Properties of the relay.                                                *)
(***************************************************************************)
RECURSIVE Chain(_, _)
\* the samples reached from tok by following 'next' (at most fuel of them)
Chain(tok, fuel) ==
    IF tok = "" \/ fuel = 0 THEN << >>
    ELSE <<tok>> \o Chain(SampleTable[tok].next, fuel - 1)

RECURSIVE WalkFrom(_)
\* the chains of the scenes i, i + 1, ... one after the other
WalkFrom(i) ==
    IF i > Len(Scenes) THEN << >>
    ELSE Chain(Scenes[i].first_sample_token, Cardinality(DOMAIN SampleTable))
         \o WalkFrom(i + 1)

ExpectedWalk == WalkFrom(1)

IsPrefix(s, t) == Len(s) <= Len(t) /\ SubSeq(t, 1, Len(s)) = s

IsFrame(e) == e.ev = "frame"

IsSend(e) == e.ev = "send"

\* the samples whose frame was started, in order
Frames ==
    LET fs == SelectSeq(trace, IsFrame) IN [i \in DOMAIN fs |-> fs[i].sample]

\* the messages handed to server.send_message, in order
Sent == SelectSeq(trace, IsSend)

IsSensorStep(e) == e.step > 1 /\ e.step < AnnsStep(e.sample)

CaughtSensorError(e) == e.ev = "raise" /\ e.caught /\ IsSensorStep(e)

\* every step of every frame of the walk was taken
AllStepsTaken ==
    \A k \in DOMAIN ExpectedWalk : \A st \in 0..SleepStep(ExpectedWalk[k]) :
        \E i \in DOMAIN trace :
            trace[i].sample = ExpectedWalk[k] /\ trace[i].step = st

\* C1: an exception in _send_camera or _send_pointcloud does not abort the
\* relay: the step after the failed sensor step is the one that follows it in
\* the frame (the next sensor, or the annotations), and a walk that is not
\* cancelled takes every step of every frame whatever failed on the way.
C1_SensorFailureIsolated ==
    /\ \A i \in DOMAIN trace :
          CaughtSensorError(trace[i]) =>
             IF i < Len(trace)
             THEN /\ trace[i + 1].sample = trace[i].sample
                  /\ trace[i + 1].step = trace[i].step + 1
             ELSE /\ pc = AfterItem(trace[i].sample, trace[i].step)
                  /\ sample = trace[i].sample
                  /\ item_idx = trace[i].step
    /\ \A i \in DOMAIN trace :
          (trace[i].ev = "raise" /\ IsSensorStep(trace[i])) => trace[i].caught
    /\ (pc = "done" /\ running) => AllStepsTaken

\* a sensor failed in the first frame and the walk still went to its end
C1_Witness ==
    /\ pc = "done"
    /\ running
    /\ \E i \in DOMAIN trace : CaughtSensorError(trace[i]) /\ trace[i].sample = "s1"
    /\ Frames = ExpectedWalk

\* C2: every error raised while processing a frame is caught within the frame,
\* whichever step raises it, so the relay never ends through an exception.
C2_EveryErrorCaught ==
    /\ pc # "crashed"
    /\ \A i \in DOMAIN trace : trace[i].ev = "raise" => trace[i].caught

\* C4: the frames started are, in order, the samples of the scenes' chains:
\* always a prefix of the walk (scene after scene, 'next' after 'next'), no
\* sample twice, and the whole walk once the relay ends with running still set.
C4_LinkedListWalk ==
    /\ IsPrefix(Frames, ExpectedWalk)
    /\ \A i, j \in DOMAIN Frames : Frames[i] = Frames[j] => i = j
    /\ (pc = "done" /\ running) => Frames = ExpectedWalk
    /\ (pc \in {"tf", "sensors", "anns", "sleep"}) =>
          /\ Frames # << >>
          /\ sample = Frames[Len(Frames)]
          /\ sample \in {Chain(Scenes[scene_idx].first_sample_token,
                               Cardinality(DOMAIN SampleTable))[k] :
                         k \in 1..Len(Chain(Scenes[scene_idx].first_sample_token,
                                            Cardinality(DOMAIN SampleTable)))}

\* the relay ended with the flag set after walking both scenes
C4_Witness ==
    /\ pc = "done"
    /\ running
    /\ Frames = <<"s1", "s2", "s3", "s4">>

\* C5: once running is cleared, everything the relay still does belongs to the
\* frame that was in progress (nothing at all if none was), and when the relay
\* ends that frame has been completed, pacing delay included.
C5_CancelBetweenFrames ==
    stop_mark.set =>
       /\ ~running
       /\ \A i \in (stop_mark.len + 1)..Len(trace) : trace[i].sample = stop_mark.frame
       /\ (pc = "done" /\ stop_mark.frame # "") =>
             trace[Len(trace)] = SleepEv(stop_mark.frame)
       /\ (pc = "done" /\ stop_mark.frame = "") => Len(trace) = stop_mark.len

\* running was cleared in the middle of the first frame; the frame was
\* completed and the relay ended without touching s2, s3 or s4
C5_Witness ==
    /\ pc = "done"
    /\ stop_mark.set
    /\ stop_mark.frame = "s1"
    /\ stop_mark.len = 2
    /\ Len(trace) > stop_mark.len + 2
    /\ Frames = <<"s1">>

\* the channel name of the sensor step a message was sent in
ChannelOf(e) == Data(e.sample)[e.step - 1][1]

IsImage(e) == IsSend(e) /\ e.payload.schema = "foxglove.CompressedImage"

IsCameraInfo(e) == IsSend(e) /\ e.payload.schema = "foxglove.CameraCalibration"

\* the key of self.channels a sensor message has to be sent under
KeyOf(e) == IF IsCameraInfo(e) THEN InfoKey(ChannelOf(e)) ELSE ChannelOf(e)

\* the topic the message's channel has to be advertised under
TopicOf(e) ==
    IF e.step = 1 THEN <<"tf">>
    ELSE IF e.step = AnnsStep(e.sample) THEN <<"annotations">>
    ELSE IF IsCameraInfo(e) THEN <<"camera", ChannelOf(e), "camera_info">>
    ELSE IF IsImage(e) THEN <<"camera", ChannelOf(e)>>
    ELSE IF Contains(ChannelOf(e), "LIDAR") THEN <<"lidar", ChannelOf(e)>>
    ELSE <<"radar", ChannelOf(e)>>

\* C8: every message goes over an identifier the server handed out in
\* _register_channels: never None, a sensor message on the identifier kept in
\* self.channels under its own channel name (the calibration under <name>_info),
\* the transform on the /tf identifier, the annotations on the /annotations
\* identifier, each advertised with the message's topic and schema.
C8_RegisteredChannelsOnly ==
    \A i \in DOMAIN trace :
        IsSend(trace[i]) =>
           LET e == trace[i] IN
           /\ e.chan # None
           /\ e.chan \in DOMAIN server_channels
           /\ server_channels[e.chan].topic = TopicOf(e)
           /\ server_channels[e.chan].schemaName = e.payload.schema
           /\ e.step = 1 => e.chan = tf_channel
           /\ e.step = AnnsStep(e.sample) => e.chan = annotations_channel
           /\ IsSensorStep(e) =>
                 /\ ChannelOf(e) \in DOMAIN channels
                 /\ KeyOf(e) \in DOMAIN channels
                 /\ e.chan = channels[KeyOf(e)]

\* a transform, an image with its calibration, a lidar cloud, a radar cloud and
\* an annotation message have all been sent
C8_Witness ==
    /\ \E i \in DOMAIN trace : IsSend(trace[i]) /\ trace[i].chan = tf_channel
    /\ \E i \in DOMAIN trace : IsSend(trace[i]) /\ trace[i].chan = annotations_channel
    /\ \E i \in DOMAIN trace : IsCameraInfo(trace[i])
    /\ \E i \in DOMAIN trace :
          IsSend(trace[i]) /\ trace[i].chan = channels[LIDAR_LEFT]
    /\ \E i \in DOMAIN trace :
          IsSend(trace[i]) /\ trace[i].chan = channels[RADAR_LEFT_FRONT]

\* C9: within a frame the steps come in the fixed order transform, sensors in
\* the order of sample['data'], annotations, pacing delay, each at most once; an
\* image is immediately followed by its calibration (or by the caught error that
\* ended _send_camera); no sensor or annotation message precedes the frame's
\* transform; a new frame begins only after the pacing delay of the one before.
C9_FrameOrder ==
    /\ \A i \in 1..(Len(trace) - 1) :
          LET e1 == trace[i]
              e2 == trace[i + 1]
          IN  IF e1.sample = e2.sample
              THEN \/ e1.step < e2.step
                   \/ /\ e1.step = e2.step
                      /\ IsImage(e1)
                      /\ IsCameraInfo(e2) \/ e2.ev = "raise"
              ELSE e1.ev = "sleep" /\ e2.step = 0
    /\ \A i \in DOMAIN trace :
          IsImage(trace[i]) =>
             /\ i < Len(trace)
             /\ trace[i + 1].sample = trace[i].sample
             /\ trace[i + 1].step = trace[i].step
             /\ IsCameraInfo(trace[i + 1]) \/ trace[i + 1].ev = "raise"
    /\ \A i \in DOMAIN trace :
          IsCameraInfo(trace[i]) => i > 1 /\ IsImage(trace[i - 1])
    /\ \A i \in DOMAIN trace :
          (IsSend(trace[i]) /\ trace[i].step > 1) =>
             \E j \in 1..(i - 1) :
                /\ IsSend(trace[j])
                /\ trace[j].sample = trace[i].sample
                /\ trace[j].step = 1
                /\ trace[j].chan = tf_channel
    /\ \A i, j \in DOMAIN trace :
          (trace[i].ev = "sleep" /\ trace[j].ev = "sleep"
             /\ trace[i].sample = trace[j].sample) => i = j
    /\ (pc = "done" /\ trace # << >>) => trace[Len(trace)].ev = "sleep"

\* the first frame sent transform, image, calibration, lidar, radar and
\* annotations, slept, and the second frame has begun
C9_Witness ==
    /\ Len(Sent) >= 7
    /\ Sent[1].chan = tf_channel
    /\ IsImage(Sent[2])
    /\ IsCameraInfo(Sent[3])
    /\ Sent[4].chan = channels[LIDAR_LEFT]
    /\ Sent[5].chan = channels[RADAR_LEFT_FRONT]
    /\ Sent[6].chan = annotations_channel
    /\ Sent[7].chan = tf_channel
    /\ \E i \in DOMAIN trace : trace[i] = SleepEv("s1")

(***************************************************************************)
(* The command line entry point (__main__.py).                             *)
(***************************************************************************)
\* scenes of the loaded dataset, at most
MaxScenes == 3

\* scene indices tried on the command line: -MaxIndex..MaxIndex
MaxIndex == 4

\* ts.scene of a dataset of n scenes
SceneList(n) == [i \in 1..n |-> [token |-> <<"scene", i - 1>>]]

\* if args.scene < len(ts.scene)
SceneInRange(i, n) == i < n

\* Python's list[i]: negative indices count from the end; an optional result,
\* None standing for IndexError
ListIndex(list, i) ==
    IF 0 <= i /\ i < Len(list) THEN <<list[i + 1]>>
    ELSE IF -Len(list) <= i /\ i < 0 THEN <<list[Len(list) + i + 1]>>
    ELSE None

\* run_visualization: what is rendered, or how the process ends
Visualization(args, scenes) ==
    IF args.sample # None /\ args.sample # <<"">>
    THEN [at |-> "rendered", what |-> <<"sample", args.sample[1]>>]
    ELSE IF args.scene # None
    THEN IF SceneInRange(args.scene[1], Len(scenes))
         THEN IF ListIndex(scenes, args.scene[1]) = None
              THEN [at |-> "IndexError", what |-> None]
              ELSE [at |-> "rendered",
                    what |-> ListIndex(scenes, args.scene[1])[1].token]
         ELSE [at |-> "exit", what |-> None]
    ELSE IF scenes # << >>
         THEN [at |-> "rendered", what |-> scenes[1].token]
         ELSE [at |-> "exit", what |-> None]

\* main up to the load of the dataset: a missing data root ends the process
MainLoad ==
    /\ cli.at = "main"
    /\ cli' = IF cli.dataroot_exists
              THEN [cli EXCEPT !.at = "loaded"]
              ELSE [cli EXCEPT !.at = "exit"]
    /\ UNCHANGED <<streamVars, probe>>

\* main, args.foxglove: run_foxglove hands the dataset to FoxgloveStreamer.run
RunFoxglove ==
    /\ cli.at = "loaded"
    /\ cli.args.foxglove
    /\ cli' = [cli EXCEPT !.at = "streaming"]
    /\ UNCHANGED <<streamVars, probe>>

\* main, otherwise: run_visualization
RunVisualization ==
    /\ cli.at = "loaded"
    /\ ~cli.args.foxglove
    /\ LET r == Visualization(cli.args, SceneList(cli.nscenes))
       IN  cli' = [cli EXCEPT !.at = r.at, !.what = r.what]
    /\ UNCHANGED <<streamVars, probe>>

StreamIdle ==
    /\ pc = "start"
    /\ running = FALSE
    /\ channels = << >>
    /\ tf_channel = None
    /\ annotations_channel = None
    /\ server_channels = << >>
    /\ scene_idx = 0
    /\ current_token = ""
    /\ sample = ""
    /\ item_idx = 0
    /\ frame_count = 0
    /\ trace = << >>
    /\ faults = 0
    /\ stop_mark = [set |-> FALSE, len |-> 0, frame |-> ""]
    /\ report = None

\* the command lines and datasets of the model
InitMain ==
    /\ StreamIdle
    /\ probe = Idle
    /\ \E fox \in BOOLEAN, exists \in BOOLEAN, n \in 0..MaxScenes,
          sc \in {None} \cup {<<i>> : i \in -MaxIndex..MaxIndex},
          sa \in {None, <<"s1">>} :
          cli = [at |-> "main", dataroot_exists |-> exists, nscenes |-> n,
                 args |-> [foxglove |-> fox, scene |-> sc, sample |-> sa],
                 what |-> None]

NextMain == MainLoad \/ RunFoxglove \/ RunVisualization

SpecMain == InitMain /\ [][NextMain]_vars

\* the scene branch of run_visualization was taken with index cli.args.scene[1]
SceneBranchDone ==
    /\ cli.at \in {"rendered", "exit", "IndexError"}
    /\ cli.dataroot_exists
    /\ ~cli.args.foxglove
    /\ cli.args.sample = None
    /\ cli.args.scene # None

\* C3: a scene index out of range (i < 0 or i >= number of scenes) ends the
\* process with an error (the message and exit, or at least a traceback) and
\* nothing rendered; a scene is rendered only for 0 <= i < number of scenes,
\* and then the scene at position i.
C3_SceneIndexChecked ==
    SceneBranchDone =>
       LET i == cli.args.scene[1] IN
       IF i < 0 \/ i >= cli.nscenes
       THEN cli.at \in {"exit", "IndexError"} /\ cli.what = None
       ELSE cli.at = "rendered" /\ cli.what = SceneList(cli.nscenes)[i + 1].token

(***************************************************************************)
(* Harnesses of the pure conversions: probe holds the input, then the      *)
(* input and the result.                                                   *)
(***************************************************************************)
\* timestamps tried: whole seconds -MaxSeconds..MaxSeconds plus a remainder
MaxSeconds == 4

TsInputs ==
    {k * UsPerSec + r : k \in -MaxSeconds..MaxSeconds,
                        r \in {0, 1, 999, 1000, 1001, 499999, 999999}}

InitTs ==
    /\ StreamIdle
    /\ cli = Idle
    /\ \E t \in TsInputs : probe = [at |-> "in", t |-> t, out |-> None]

\* a call of _ts
ApplyTs ==
    /\ probe.at = "in"
    /\ probe' = [probe EXCEPT !.at = "out", !.out = Ts(probe.t)]
    /\ UNCHANGED <<streamVars, cli>>

NextTs == ApplyTs

SpecTs == InitTs /\ [][NextTs]_vars

\* C6: _ts round-trips: sec * 1000000 + nsec / 1000 is the timestamp, nsec is
\* a multiple of 1000 and 0 <= nsec < 1000000000.
C6_TsRoundTrip ==
    probe.at = "out" =>
       /\ probe.out.sec * 1000000 + probe.out.nsec \div 1000 = probe.t
       /\ probe.out.nsec % 1000 = 0
       /\ 0 <= probe.out.nsec
       /\ probe.out.nsec < 1000000000

\* a negative timestamp that is no whole second was converted
C6_Witness ==
    /\ probe.at = "out"
    /\ probe.t < 0
    /\ probe.out.nsec # 0

\* radar cross sections tried, in dBsm: -MaxRcs..MaxRcs
MaxRcs == 33

InitRcs ==
    /\ StreamIdle
    /\ cli = Idle
    /\ \E a \in -MaxRcs..MaxRcs, b \in -MaxRcs..MaxRcs, c \in -MaxRcs..MaxRcs :
          /\ a <= b
          /\ b <= c
          /\ probe = [at |-> "in", rcs |-> <<a, b, c>>, out |-> None]

\* the colours _send_pointcloud gives three radar points
ApplyRcsColor ==
    /\ probe.at = "in"
    /\ probe' = [probe EXCEPT !.at = "out",
                              !.out = [i \in 1..3 |-> RcsColor(probe.rcs[i])]]
    /\ UNCHANGED <<streamVars, cli>>

NextRcs == ApplyRcsColor

SpecRcs == InitRcs /\ [][NextRcs]_vars

\* x, y, z in one direction: y neither above both nor below both
NoTurn(x, y, z) == ~(x < y /\ y > z) /\ ~(x > y /\ y < z)

InUnit(color) ==
    /\ 0 <= color.r /\ color.r <= 100
    /\ 0 <= color.g /\ color.g <= 100
    /\ 0 <= color.b /\ color.b <= 100

\* C7 as stated: for RCS values a <= b <= c no colour component rises and then
\* falls (or falls and then rises), every component is within [0, 1], and the
\* RCS is clamped below -20 and above +30 dBsm.
C7_MonotonicAsStated ==
    probe.at = "out" =>
       /\ NoTurn(probe.out[1].r, probe.out[2].r, probe.out[3].r)
       /\ NoTurn(probe.out[1].g, probe.out[2].g, probe.out[3].g)
       /\ NoTurn(probe.out[1].b, probe.out[2].b, probe.out[3].b)
       /\ \A i \in 1..3 : InUnit(probe.out[i])
       /\ \A i \in 1..3 : probe.rcs[i] <= -20 => probe.out[i] = RcsColor(-20)
       /\ \A i \in 1..3 : probe.rcs[i] >= 30 => probe.out[i] = RcsColor(30)

\* C7 amended: red never falls and blue never rises with the RCS; green never
\* falls up to 5 dBsm (rcs_norm 0.5) and never rises from there on; every
\* component is within [0, 1]; at and below -20 dBsm the colour is blue
\* (0, 0, 1), at and above +30 dBsm it is red (1, 0, 0).
C7_RampAmended ==
    probe.at = "out" =>
       /\ \A i, j \in 1..3 :
             i < j =>
                /\ probe.out[i].r <= probe.out[j].r
                /\ probe.out[i].b >= probe.out[j].b
                /\ probe.rcs[j] <= 5 => probe.out[i].g <= probe.out[j].g
                /\ probe.rcs[i] >= 5 => probe.out[i].g >= probe.out[j].g
       /\ \A i \in 1..3 : InUnit(probe.out[i])
       /\ \A i \in 1..3 :
             probe.rcs[i] <= -20 =>
                probe.out[i] = [r |-> 0, g |-> 0, b |-> 100, a |-> 100]
       /\ \A i \in 1..3 :
             probe.rcs[i] >= 30 =>
                probe.out[i] = [r |-> 100, g |-> 0, b |-> 0, a |-> 100]

\* three points on both sides of the knee were coloured: green rose, then fell
C7_Witness ==
    /\ probe.at = "out"
    /\ probe.rcs = <<-10, 5, 20>>
    /\ probe.out[1].g < probe.out[2].g
    /\ probe.out[2].g > probe.out[3].g

\* small cloud sizes tried: 0..MaxSmallCloud, next to the sizes around the caps
MaxSmallCloud == 3

\* contents tried for the clouds: 0..MaxSeed
MaxSeed == 2

CloudSizes ==
    (0..MaxSmallCloud)
    \cup {RadarMaxPts - 1, RadarMaxPts, RadarMaxPts + 1,
          LidarMaxPts - 1, LidarMaxPts, LidarMaxPts + 1}

\* point i (from 1) of the decoded file: rows x, y, z, three others, RCS
FilePoint(i, seed) == <<i + seed, seed - i, i * 2, 0, 0, 0, ((i + seed) % 60) - 25>>

\* the array LidarPointCloud/RadarPointCloud.from_file returns, point by point
FileCloud(n, seed) == [i \in 1..n |-> FilePoint(i, seed)]

\* self.channels once _register_channels has run
RegisteredChannels == RegisterSensors([chans |-> << >>, srv |-> << >>], 1).chans

InitPc ==
    /\ StreamIdle
    /\ cli = Idle
    /\ \E n \in CloudSizes, seed \in 0..MaxSeed, is_lidar \in BOOLEAN :
          probe = [at |-> "in", n |-> n, seed |-> seed, is_lidar |-> is_lidar,
                   out |-> None]

\* the conversion of _send_pointcloud on a decoded file of probe.n points
ApplyPointcloud ==
    /\ probe.at = "in"
    /\ probe' = [probe EXCEPT
                   !.at = "out",
                   !.out = PointcloudMessages(
                              RegisteredChannels,
                              IF probe.is_lidar THEN LIDAR_LEFT ELSE RADAR_LEFT_FRONT,
                              FileCloud(probe.n, probe.seed), 1200000,
                              probe.is_lidar)]
    /\ UNCHANGED <<streamVars, cli>>

NextPc == ApplyPointcloud

SpecPc == InitPc /\ [][NextPc]_vars

\* C10: a cloud of N points is sent as one message of min(N, 3000) spheres for
\* a lidar and min(N, 800) for a radar, sphere i at the x, y, z of point i of
\* the file; an empty cloud sends nothing.
C10_PointCap ==
    probe.at = "out" =>
       IF probe.n = 0 THEN probe.out = << >>
       ELSE /\ Len(probe.out) = 1
            /\ probe.out[1].chan =
                  RegisteredChannels[IF probe.is_lidar THEN LIDAR_LEFT
                                     ELSE RADAR_LEFT_FRONT]
            /\ LET spheres == probe.out[1].payload.spheres
                   cap == IF probe.is_lidar THEN 3000 ELSE 800
               IN  /\ Len(spheres) = IF probe.n <= cap THEN probe.n ELSE cap
                   /\ \A i \in DOMAIN spheres :
                         spheres[i].position =
                            [x |-> FilePoint(i, probe.seed)[1],
                             y |-> FilePoint(i, probe.seed)[2],
                             z |-> FilePoint(i, probe.seed)[3]]

\* a radar cloud of 801 points was cut to 800 spheres
C10_Witness ==
    /\ probe.at = "out"
    /\ ~probe.is_lidar
    /\ probe.n = 801
    /\ Len(probe.out) = 1
    /\ Len(probe.out[1].payload.spheres) = 800

(***************************************************************************)
(* Properties of the registration.                                         *)
(***************************************************************************)
\* the branch of _register_channels a channel name takes
RegisteredAs(channel) ==
    IF Contains(channel, "CAMERA") THEN "camera"
    ELSE IF Contains(channel, "LIDAR") THEN "lidar"
    ELSE IF Contains(channel, "RADAR") THEN "radar"
    ELSE "none"

\* the sensors of ts.sensor registered as kind
SensorsAs(kind) ==
    {i \in DOMAIN Sensors : RegisteredAs(Sensors[i].channel) = kind}

\* the channel map holds the image and the calibration channel of every camera
\* and the one channel of every lidar and radar, under distinct identifiers
ChannelMapExact ==
    /\ DOMAIN channels =
          {Sensors[i].channel : i \in SensorsAs("camera") \cup SensorsAs("lidar")
                                      \cup SensorsAs("radar")}
          \cup {InfoKey(Sensors[i].channel) : i \in SensorsAs("camera")}
    /\ Cardinality(DOMAIN channels) =
          2 * Cardinality(SensorsAs("camera")) + Cardinality(SensorsAs("lidar"))
          + Cardinality(SensorsAs("radar"))
    /\ \A k1, k2 \in DOMAIN channels : channels[k1] = channels[k2] => k1 = k2

\* the lidar and radar counts are the numbers of lidar and radar sensors
LidarRadarCountsExact ==
    pc # "start" =>
       /\ report.lidar_count = Cardinality(SensorsAs("lidar"))
       /\ report.radar_count = Cardinality(SensorsAs("radar"))
       /\ ChannelMapExact

\* C11: once _register_channels has run, the camera, lidar and radar counts it
\* reports are the numbers of sensors registered as camera, lidar and radar, and
\* the channel map holds one image and one camera_info channel per camera and
\* one channel per lidar or radar.
C11_CountsMatchSensors ==
    pc # "start" =>
       /\ report.camera_count = Cardinality(SensorsAs("camera"))
       /\ report.lidar_count = Cardinality(SensorsAs("lidar"))
       /\ report.radar_count = Cardinality(SensorsAs("radar"))
       /\ ChannelMapExact

(***************************************************************************)
(* Termination of the relay.                                               *)
(***************************************************************************)
\* a step of _stream_data
RelayStep ==
    \/ ForScene
    \/ WhileTest
    \/ Lookup
    \/ SendTransforms
    \/ SkipSensor
    \/ SendCamera
    \/ SendPointcloud
    \/ SendAnnotations
    \/ Sleep
    \/ BreakTest

\* asyncio.run drives the one coroutine: every await of _stream_data returns
\* (the server calls and the 0.1 s sleep), so once entered the relay takes its
\* next step whenever it has one; nothing is assumed of who clears self.running
FairSpec == Init /\ [][Next]_vars /\ WF_vars(RelayStep)

\* every chain of the dataset ends: following 'next' from first_sample_token
\* reaches the empty reference without visiting a sample twice
ChainsAcyclic ==
    \A k \in DOMAIN Scenes :
        LET c == Chain(Scenes[k].first_sample_token, Cardinality(DOMAIN SampleTable))
        IN  /\ \A i, j \in DOMAIN c : c[i] = c[j] => i = j
            /\ c = << >> \/ SampleTable[c[Len(c)]].next = ""

\* C12: with finite acyclic chains and no uncaught error, _stream_data, once
\* entered, reaches "Streaming complete" and stays there, whether or not
\* running is cleared on the way; with running still set it is there only
\* after every sample of every scene has been through its whole frame.
C12_Terminates ==
    /\ (ChainsAcyclic /\ [](pc # "crashed")) => ((pc = "for") ~> (pc = "done"))
    /\ [][pc = "done" => pc' = "done"]_vars
    /\ []((pc = "done" /\ running) =>
            /\ Frames = ExpectedWalk
            /\ \A k \in DOMAIN ExpectedWalk :
                  \E i \in DOMAIN trace : trace[i] = SleepEv(ExpectedWalk[k]))

\* the relay reached "Streaming complete" after running was cleared during
\* the third frame, with the fourth sample never looked up
C12_Witness ==
    /\ pc = "done"
    /\ ~running
    /\ stop_mark.frame = "s3"
    /\ Frames = <<"s1", "s2", "s3">>
    /\ ChainsAcyclic

====
